---- MODULE Spec2Model ----
(***************************************************************************)
(* The unsubscribe job engine of gmail-unsubscribe: the job store          *)
(* (src/jobs.py, JobManager), the job run (src/app.py,                     *)
(* run_mass_unsubscribe_job) with its three lanes and the mailto fallback, *)
(* and the retry endpoint (src/app.py, retry_job).                         *)
(*                                                                         *)
(* Every store method is one SQLite transaction and is modelled as one     *)
(* atomic step that either commits or raises (store unavailable) without   *)
(* changing anything.  The coroutines of the event loop interleave at      *)
(* their awaits: each action below runs from one await to the next.        *)
(* Timestamps (datetime.now().isoformat()) are abstracted to the one value *)
(* Stamp; a job identifier (uuid4) is the job's index in the jobs table.   *)
(***************************************************************************)
EXTENDS Integers, Sequences, FiniteSets, TLC

\* ---- bounds of the model ----
\* jobs created, rows of job_items, background tasks alive at a time,
\* retry requests in flight, and the cap on retry_count
MaxJobs == 1
MaxItems == 2
MaxRuns == 1
MaxRequests == 1
MaxRetryCount == 1
\* items of a lane beyond the lane's concurrency limit (SpecLanes)
MaxExtra == 1
\* background tasks alive at a time where runs overlap (SpecRace)
RaceRuns == MaxRuns + 1
\* the jobs of SpecJobs: one more than MaxJobs
ManyJobs == MaxJobs + 1

\* ---- program constants ----
MAX_CONCURRENT_HTTP == 5
MAX_BROWSER_WORKERS == 3
\* default of max_retries in async_one_click_unsubscribe
MAX_RETRIES == 2

NULL == "NULL"
Stamp == "now"

\* ---- inputs ----
Senders == {"A"}
HttpUrls == {"https://u"}
Urls == HttpUrls \cup {"ftp://u"}
Mailtos == {"m@x"}
ItemInputs ==
    [sender : Senders, url : Urls \cup {NULL}, mailto : Mailtos \cup {NULL},
     one_click : BOOLEAN]
InputLists == UNION {[1..n -> ItemInputs] : n \in 0..MaxItems}
\* the jobs of SpecRace: items with a mailto target only
RaceItemInputs == {x \in ItemInputs : x.url = NULL /\ x.mailto # NULL /\ ~x.one_click}
RaceInputLists == UNION {[1..n -> RaceItemInputs] : n \in 0..MaxItems}

\* the jobs of SpecLanes.  The lane limits at work: more one-click items than
\* MAX_CONCURRENT_HTTP allows at a time together with one item of the browser
\* lane that has a mailto target, and more browser items than
\* MAX_BROWSER_WORKERS.  End to end: senders A, B, C, where B holds a URL of
\* either URL lane and a mailto target and C a mailto target only.
OneClickInput == [sender |-> "A", url |-> "https://u", mailto |-> NULL, one_click |-> TRUE]
BrowserInput == [sender |-> "A", url |-> "ftp://u", mailto |-> NULL, one_click |-> FALSE]
HttpLaneList ==
    [k \in 1..(MAX_CONCURRENT_HTTP + 1) |->
        IF k <= MAX_CONCURRENT_HTTP THEN OneClickInput
        ELSE [BrowserInput EXCEPT !.mailto = "m@x"]]
BrowserLaneList == [k \in 1..(MAX_BROWSER_WORKERS + MaxExtra) |-> BrowserInput]
EndToEndLists ==
    {<<OneClickInput,
       [sender |-> "B", url |-> u, mailto |-> "m@x", one_click |-> FALSE],
       [sender |-> "C", url |-> NULL, mailto |-> "m@x", one_click |-> FALSE]>> :
     u \in Urls}
\* as many browser items as MAX_BROWSER_WORKERS allows at a time together
\* with one one-click item and one mailto-only item
MixedLaneList ==
    [k \in 1..(MAX_BROWSER_WORKERS + 2) |->
        IF k <= MAX_BROWSER_WORKERS THEN BrowserInput
        ELSE IF k = MAX_BROWSER_WORKERS + 1 THEN OneClickInput
        ELSE [sender |-> "C", url |-> NULL, mailto |-> "m@x", one_click |-> FALSE]]
LaneInputLists == {HttpLaneList, BrowserLaneList, MixedLaneList} \cup EndToEndLists

\* str.startswith('http') on the URLs of the model
StartsWithHttp(u) == u \in HttpUrls

\* ---- messages of the strategies ----
MsgHttpOk == "Success (HTTP 200)"
MsgHttpFail == "HTTP 500"
MsgBrowserOk == "Clicked"
MsgBrowserFail == "Page loaded (manual may be needed)"
MsgMailOk == "Email sent"
MsgMailFail == "Email failed: error"
MsgStrategyFault == "strategy fault"
MsgStoreFault == "database is locked"
MailtoAlsoFailed == " (mailto also failed)"

\* the committed tables, the background tasks, the retry requests, and the
\* store connections opened outside the runs (a create_job, a get_job) and one
\* invocation of async_one_click_unsubscribe with its HTTP client
VARIABLES jobs, job_items, runs, requests, connections
vars == <<jobs, job_items, runs, requests, connections>>

JobIds == 1..Len(jobs)
ItemIds == 1..Len(job_items)
RunIds == 1..RaceRuns
RequestIds == 1..MaxRequests

\* ---- records ----
Job(n) ==
    [status |-> "pending", created_at |-> Stamp, started_at |-> NULL,
     completed_at |-> NULL, total_items |-> n, completed_items |-> 0,
     successful_items |-> 0, failed_items |-> 0]

JobItem(job_id, item) ==
    [job_id |-> job_id, sender |-> item.sender,
     unsubscribe_url |-> item.url, unsubscribe_mailto |-> item.mailto,
     method_attempted |-> NULL, status |-> "pending", error_message |-> NULL,
     attempted_at |-> NULL, retry_count |-> 0]

\* a lane task of a run: its position, its locals success / message / method,
\* and what its strategies returned (primary_result, mailto_result: "ok" or
\* "fail", NULL while not invoked)
NoTask ==
    [pc |-> "none", success |-> FALSE, message |-> NULL, method |-> NULL,
     primary_result |-> NULL, mailto_result |-> NULL]
Result(ok) == IF ok THEN "ok" ELSE "fail"
Task(pc) == [NoTask EXCEPT !.pc = pc]
\* a background task: its position, its job, its lane tasks, and for
\* reference until the classification what scheduled it: origin "submit" with
\* the list process_unsubscribe built (submitted), or origin "retry" with the
\* identifiers of the items the retry reset (reset)
FreeRun ==
    [pc |-> "free", job |-> 0, tasks |-> <<>>, origin |-> NULL,
     submitted |-> <<>>, reset |-> {}]
IdleRequest == [pc |-> "idle", job |-> 0, response |-> NULL, retried |-> 0]
\* the connection of a create_job: the rows it has inserted and not yet
\* committed, and the items it has still to insert
ClosedCreate ==
    [pc |-> "closed", job_id |-> 0, job_rows |-> <<>>, item_rows |-> <<>>,
     todo |-> <<>>, items |-> <<>>]
\* what client.post of async_one_click_unsubscribe gives: a response with its
\* status code (redirects with a Location header are followed, so a 3xx that
\* is returned is one without), a timeout or another request error
StatusCodes == {200, 201, 202, 204, 300, 301, 302, 303, 304, 307, 308,
                400, 404, 429, 500, 503}
Outcomes ==
    [kind : {"response"}, status : StatusCodes]
        \cup {[kind |-> "timeout", status |-> 0], [kind |-> "network", status |-> 0]}
NoOutcome == [kind |-> "none", status |-> 0]
\* f"HTTP {response.status_code}"
HttpMessage(status) == "HTTP " \o ToString(status)
MsgTimeout == "Timeout"
MsgNetwork == "Connection refused"
\* an invocation of async_one_click_unsubscribe: the pass of the loop
\* (attempt), the requests sent, last_error, the result of the last
\* client.post and what the invocation returned
IdleOneClick ==
    [pc |-> "idle", attempt |-> 0, sent |-> 0, last_error |-> "Unknown error",
     outcome |-> NoOutcome, success |-> FALSE, message |-> NULL]

\* the connection of a get_job: of the job row its first SELECT returned,
\* total_items and completed_items; of the item rows its second SELECT
\* returned, their number (items) and the number of those that are success
\* or failed (terminal)
IdleGetJob ==
    [pc |-> "idle", job_id |-> 0, found |-> FALSE, total_items |-> 0,
     completed_items |-> 0, items |-> 0, terminal |-> 0]

\* ======================= JobManager (src/jobs.py) =======================
\* Each operator is the committed effect of one store method on the two
\* tables: it yields [jobs |-> ..., job_items |-> ...].
Store(js, its) == [jobs |-> js, job_items |-> its]

\* create_job that leaves total_items at the column default
create_job_no_total(items) ==
    Store(Append(jobs, Job(0)),
          job_items \o [k \in 1..Len(items) |-> JobItem(Len(jobs) + 1, items[k])])

create_job(items) ==
    Store(Append(jobs, Job(Len(items))),
          job_items \o [k \in 1..Len(items) |-> JobItem(Len(jobs) + 1, items[k])])

start_job(job_id) ==
    Store([jobs EXCEPT ![job_id].status = "running", ![job_id].started_at = Stamp],
          job_items)

\* update_item that counts the item as completed only
update_item_completed_only(item_id, status, method, error_message) ==
    LET job_id == job_items[item_id].job_id
    IN  Store([jobs EXCEPT ![job_id].completed_items = @ + 1],
              [job_items EXCEPT ![item_id].status = status,
                                ![item_id].method_attempted = method,
                                ![item_id].error_message = error_message,
                                ![item_id].attempted_at = Stamp])

\* update_item that starts the item's retry_count again at 0
update_item_clears_retry_count(item_id, status, method, error_message) ==
    LET job_id == job_items[item_id].job_id
    IN  Store([jobs EXCEPT ![job_id].completed_items = @ + 1,
                           ![job_id].successful_items =
                               IF status = "success" THEN @ + 1 ELSE @,
                           ![job_id].failed_items =
                               IF status = "failed" THEN @ + 1 ELSE @],
              [job_items EXCEPT ![item_id].status = status,
                                ![item_id].method_attempted = method,
                                ![item_id].error_message = error_message,
                                ![item_id].attempted_at = Stamp,
                                ![item_id].retry_count = 0])

\* update_item that adds to the counters of every job
update_item_every_job(item_id, status, method, error_message) ==
    Store([j \in JobIds |->
              IF status = "success"
              THEN [jobs[j] EXCEPT !.completed_items = @ + 1,
                                   !.successful_items = @ + 1]
              ELSE [jobs[j] EXCEPT !.completed_items = @ + 1,
                                   !.failed_items = @ + 1]],
          [job_items EXCEPT ![item_id].status = status,
                            ![item_id].method_attempted = method,
                            ![item_id].error_message = error_message,
                            ![item_id].attempted_at = Stamp])

\* the UPDATE of an id that has no row changes nothing, and the SELECT that
\* follows finds no row (if row:), so that no counter is touched
update_item(item_id, status, method, error_message) ==
    IF item_id \notin DOMAIN job_items THEN Store(jobs, job_items)
    ELSE
    LET job_id == job_items[item_id].job_id
        its == [job_items EXCEPT ![item_id].status = status,
                                 ![item_id].method_attempted = method,
                                 ![item_id].error_message = error_message,
                                 ![item_id].attempted_at = Stamp]
        js == IF status = "success"
              THEN [jobs EXCEPT ![job_id].completed_items = @ + 1,
                                ![job_id].successful_items = @ + 1]
              ELSE IF status = "failed"
              THEN [jobs EXCEPT ![job_id].completed_items = @ + 1,
                                ![job_id].failed_items = @ + 1]
              ELSE jobs
    IN  Store(js, its)

complete_job(job_id, status) ==
    Store([jobs EXCEPT ![job_id].status = status, ![job_id].completed_at = Stamp],
          job_items)

\* identifiers of the job's pending items, ORDER BY id
get_pending_items(job_id) ==
    {i \in ItemIds : job_items[i].job_id = job_id /\ job_items[i].status = "pending"}

get_failed_items(job_id) ==
    {i \in ItemIds : job_items[i].job_id = job_id /\ job_items[i].status = "failed"}

\* cursor.rowcount of the UPDATE job_items
reset_count(job_id) == Cardinality(get_failed_items(job_id))

\* reset_failed_items that resets every attempted item, success included
reset_failed_items_all(job_id) ==
    LET count == reset_count(job_id)
    IN  Store([jobs EXCEPT ![job_id].status = "pending",
                           ![job_id].completed_items = @ - count,
                           ![job_id].failed_items = 0,
                           ![job_id].completed_at = NULL],
              [i \in ItemIds |->
                 IF job_items[i].job_id = job_id /\ job_items[i].status # "pending"
                 THEN [job_items[i] EXCEPT !.status = "pending",
                                           !.retry_count = @ + 1]
                 ELSE job_items[i]])

reset_failed_items(job_id) ==
    LET count == reset_count(job_id)
    IN  Store([jobs EXCEPT ![job_id].status = "pending",
                           ![job_id].completed_items = @ - count,
                           ![job_id].failed_items = 0,
                           ![job_id].completed_at = NULL],
              [i \in ItemIds |->
                 IF i \in get_failed_items(job_id)
                 THEN [job_items[i] EXCEPT !.status = "pending",
                                           !.retry_count = @ + 1]
                 ELSE job_items[i]])

\* x or y of Python on Optional[str]
Or(x, y) == IF x \in {NULL, ""} THEN y ELSE x

\* one entry of results for the item row it
StatusResult(it) ==
    [sender |-> it.sender,
     success |-> it.status = "success",
     method |-> Or(it.method_attempted, "pending"),
     message |-> Or(it.error_message, IF it.status = "success" THEN "Done" ELSE "")]

\* the snapshot get_job_status builds from the job row and the item rows
\* (ORDER BY id) that get_job read in the tables js and its; the dict for an
\* unknown job has no job_id key, which is NULL here
get_job_status_of(js, its, job_id) ==
    IF job_id \notin 1..Len(js)
    THEN [running |-> FALSE, progress |-> 0, total |-> 0, results |-> <<>>,
          job_id |-> NULL]
    ELSE LET Terminal(i) == /\ its[i].job_id = job_id
                            /\ its[i].status \in {"success", "failed"}
             ids == SelectSeq([i \in 1..Len(its) |-> i], Terminal)
         IN  [running |-> js[job_id].status = "running",
              progress |-> js[job_id].completed_items,
              total |-> js[job_id].total_items,
              results |-> [k \in 1..Len(ids) |-> StatusResult(its[ids[k]])],
              job_id |-> job_id]

\* get_job_status that lists every item of the job
get_job_status_all_items(job_id) ==
    IF job_id \notin JobIds
    THEN [running |-> FALSE, progress |-> 0, total |-> 0, results |-> <<>>,
          job_id |-> NULL]
    ELSE LET Owned(i) == job_items[i].job_id = job_id
             ids == SelectSeq([i \in ItemIds |-> i], Owned)
         IN  [running |-> jobs[job_id].status = "running",
              progress |-> jobs[job_id].completed_items,
              total |-> jobs[job_id].total_items,
              results |-> [k \in 1..Len(ids) |-> StatusResult(job_items[ids[k]])],
              job_id |-> job_id]

\* the snapshot of the tables as they are
get_job_status(job_id) == get_job_status_of(jobs, job_items, job_id)

Commit(s) == jobs' = s.jobs /\ job_items' = s.job_items

\* ================== run_mass_unsubscribe_job (src/app.py) ==================
\* lane of a pending item (app.py 541-557)
has_one_click(item) ==
    item.unsubscribe_url # NULL /\ StartsWithHttp(item.unsubscribe_url)

Lane(item) ==
    IF has_one_click(item) THEN "one-click"
    ELSE IF item.unsubscribe_url # NULL THEN "browser"
    ELSE IF item.unsubscribe_mailto # NULL THEN "mailto"
    ELSE "skipped"

Init ==
    /\ jobs = <<>>
    /\ job_items = <<>>
    /\ runs = [r \in RunIds |-> FreeRun]
    /\ requests = [q \in RequestIds |-> IdleRequest]
    /\ connections = [create |-> ClosedCreate, get_job |-> IdleGetJob,
                      one_click |-> IdleOneClick]

\* ---- async_one_click_unsubscribe (src/gmail_client.py 104-165) ----
\* AfterAttempt with a retry after every response that is not a success
AfterAttempt_retries_4xx(c, o) ==
    LET sent == [c EXCEPT !.sent = c.sent + 1, !.outcome = o]
        Return(ok, msg) ==
            [sent EXCEPT !.pc = "returned", !.success = ok, !.message = msg]
        Retry(err) ==
            IF c.attempt < MAX_RETRIES
            THEN [sent EXCEPT !.pc = "backoff", !.last_error = err]
            ELSE [Return(FALSE, err) EXCEPT !.last_error = err]
    IN  IF o.kind = "timeout" THEN Retry(MsgTimeout)
        ELSE IF o.kind = "network" THEN Retry(MsgNetwork)
        ELSE IF o.status \in {200, 202, 204}
             THEN Return(TRUE, "Success (" \o HttpMessage(o.status) \o ")")
        ELSE IF o.status \in {301, 302, 303, 307, 308}
             THEN Return(TRUE, "Success (redirected)")
        ELSE Retry(HttpMessage(o.status))

\* One attempt: client.post returned the response o.status, or raised
\* httpx.TimeoutException or another httpx.RequestError.  c is the state of
\* the invocation before the attempt.
AfterAttempt(c, o) ==
    LET sent == [c EXCEPT !.sent = c.sent + 1, !.outcome = o]
        Return(ok, msg) ==
            [sent EXCEPT !.pc = "returned", !.success = ok, !.message = msg]
        Retry(err) ==
            IF c.attempt < MAX_RETRIES
            THEN [sent EXCEPT !.pc = "backoff", !.last_error = err]
            ELSE [Return(FALSE, err) EXCEPT !.last_error = err]
    IN  IF o.kind = "timeout" THEN Retry(MsgTimeout)
        ELSE IF o.kind = "network" THEN Retry(MsgNetwork)
        ELSE IF o.status \in {200, 202, 204}
             THEN Return(TRUE, "Success (" \o HttpMessage(o.status) \o ")")
        ELSE IF o.status \in {301, 302, 303, 307, 308}
             THEN Return(TRUE, "Success (redirected)")
        ELSE IF o.status >= 500 THEN Retry(HttpMessage(o.status))
        ELSE Return(FALSE, HttpMessage(o.status))

\* the call of async_one_click_unsubscribe(url): last_error = "Unknown error",
\* first pass of the loop
OneClickCall ==
    /\ connections.one_click.pc \in {"idle", "returned"}
    /\ connections' = [connections EXCEPT
          !.one_click = [IdleOneClick EXCEPT !.pc = "request"]]
    /\ UNCHANGED <<jobs, job_items, runs, requests>>

\* await client.post(...) and the branches on its result
OneClickAttempt(o) ==
    /\ connections.one_click.pc = "request"
    /\ connections' = [connections EXCEPT
          !.one_click = AfterAttempt(connections.one_click, o)]
    /\ UNCHANGED <<jobs, job_items, runs, requests>>

\* await asyncio.sleep(backoff_factor ** attempt); continue
OneClickBackoff ==
    /\ connections.one_click.pc = "backoff"
    /\ connections' = [connections EXCEPT
          !.one_click.pc = "request",
          !.one_click.attempt = connections.one_click.attempt + 1]
    /\ UNCHANGED <<jobs, job_items, runs, requests>>

\* the free ones of the first n background-task slots
FreeRuns(n) == {r \in 1..n : runs[r].pc = "free"}
\* background_tasks.add_task(run_mass_unsubscribe_job, job_id): the task takes
\* the lowest free slot
add_task(job_id, n, origin, submitted, reset) ==
    LET r == CHOOSE x \in FreeRuns(n) : \A y \in FreeRuns(n) : x <= y
    IN  [runs EXCEPT ![r] = [pc |-> "scheduled", job |-> job_id, tasks |-> <<>>,
                             origin |-> origin, submitted |-> submitted,
                             reset |-> reset]]

\* process_unsubscribe: create the job and schedule its run (n task slots, at
\* most max_jobs jobs and max_items item rows in the tables)
SubmitJob(items, n, max_jobs, max_items) ==
    /\ items # <<>>
    /\ Len(jobs) < max_jobs
    /\ Len(job_items) + Len(items) <= max_items
    /\ FreeRuns(n) # {}
    /\ Commit(create_job(items))
    /\ runs' = add_task(Len(jobs) + 1, n, "submit", items, {})
    /\ UNCHANGED <<requests, connections>>

\* ---- create_job statement by statement (src/jobs.py 62-84) ----
\* The INSERTs of create_job run in one transaction of its own connection:
\* the rows reach the tables at db.commit().
\* CreateJobInsertJob on a connection in autocommit mode
CreateJobInsertJob_autocommit(items, max_jobs, max_items) ==
    /\ items # <<>>
    /\ connections.create.pc = "closed"
    /\ Len(jobs) < max_jobs
    /\ Len(job_items) + Len(items) <= max_items
    /\ jobs' = Append(jobs, Job(Len(items)))
    /\ connections' = [connections EXCEPT !.create =
          [pc |-> "open", job_id |-> Len(jobs) + 1, job_rows |-> <<>>,
           item_rows |-> <<>>, todo |-> items, items |-> items]]
    /\ UNCHANGED <<job_items, runs, requests>>

\* INSERT INTO jobs (id, status, created_at, total_items)
CreateJobInsertJob(items, max_jobs, max_items) ==
    /\ items # <<>>
    /\ connections.create.pc = "closed"
    /\ Len(jobs) < max_jobs
    /\ Len(job_items) + Len(items) <= max_items
    /\ connections' = [connections EXCEPT !.create =
          [pc |-> "open", job_id |-> Len(jobs) + 1,
           job_rows |-> <<Job(Len(items))>>, item_rows |-> <<>>,
           todo |-> items, items |-> items]]
    /\ UNCHANGED <<jobs, job_items, runs, requests>>

\* for item in items: INSERT INTO job_items
CreateJobInsertItem ==
    /\ connections.create.pc = "open"
    /\ connections.create.todo # <<>>
    /\ connections' = [connections EXCEPT
          !.create.item_rows =
              Append(@, JobItem(connections.create.job_id, Head(connections.create.todo))),
          !.create.todo = Tail(@)]
    /\ UNCHANGED <<jobs, job_items, runs, requests>>

\* await db.commit(), then process_unsubscribe schedules the run
CreateJobCommit(n) ==
    /\ connections.create.pc = "open"
    /\ connections.create.todo = <<>>
    /\ FreeRuns(n) # {}
    /\ jobs' = jobs \o connections.create.job_rows
    /\ job_items' = job_items \o connections.create.item_rows
    /\ runs' = add_task(connections.create.job_id, n, "submit",
                        connections.create.items, {})
    /\ connections' = [connections EXCEPT !.create = ClosedCreate]
    /\ UNCHANGED requests

\* a statement of create_job raises: the connection closes without a commit
CreateJobFault ==
    /\ connections.create.pc = "open"
    /\ connections' = [connections EXCEPT !.create = ClosedCreate]
    /\ UNCHANGED <<jobs, job_items, runs, requests>>

\* ---- get_job statement by statement (src/jobs.py 90-136) ----
\* SELECT * FROM jobs WHERE id = ?
GetJobSelectJob(job_id) ==
    /\ connections.get_job.pc \in {"idle", "done"}
    /\ connections' = [connections EXCEPT !.get_job =
          IF job_id \notin JobIds
          THEN [IdleGetJob EXCEPT !.pc = "done", !.job_id = job_id]
          ELSE [pc |-> "items", job_id |-> job_id, found |-> TRUE,
                total_items |-> jobs[job_id].total_items,
                completed_items |-> jobs[job_id].completed_items,
                items |-> 0, terminal |-> 0]]
    /\ UNCHANGED <<jobs, job_items, runs, requests>>

\* SELECT * FROM job_items WHERE job_id = ? ORDER BY id
GetJobSelectItems ==
    /\ connections.get_job.pc = "items"
    /\ connections' = [connections EXCEPT
          !.get_job.pc = "done",
          !.get_job.items =
              Cardinality({i \in ItemIds :
                  job_items[i].job_id = connections.get_job.job_id}),
          !.get_job.terminal =
              Cardinality({i \in ItemIds :
                  /\ job_items[i].job_id = connections.get_job.job_id
                  /\ job_items[i].status \in {"success", "failed"}})]
    /\ UNCHANGED <<jobs, job_items, runs, requests>>

\* the task of run r for item i, and the run with that task replaced
TaskOf(r, i) == runs[r].tasks[i]
SetTask(r, i, t) == [runs EXCEPT ![r].tasks[i] = t]
RunItems(r) == DOMAIN runs[r].tasks
Classified(r) == {i \in RunItems(r) : runs[r].tasks[i].pc \notin {"none", "skipped"}}
Finished(r) ==
    \A i \in RunItems(r) : runs[r].tasks[i].pc \in {"none", "skipped", "done", "raised"}

\* strategy invocations in progress in run r: one-click requests awaiting
\* their response, browser workers in their thread
ActiveHttp(r) == {i \in RunItems(r) : runs[r].tasks[i].pc = "http"}
ActiveBrowser(r) == {i \in RunItems(r) : runs[r].tasks[i].pc = "browser"}

\* holders of semaphore (one-click and mailto-only lanes) and of
\* browser_semaphore (browser lane) in run r
HttpHolders(r) ==
    {i \in RunItems(r) : /\ Lane(job_items[i]) \in {"one-click", "mailto"}
                         /\ runs[r].tasks[i].pc \in {"http", "write"}}
BrowserHolders(r) ==
    {i \in RunItems(r) : /\ Lane(job_items[i]) = "browser"
                         /\ runs[r].tasks[i].pc \in {"browser", "write"}}

\* await job_manager.start_job(job_id)
RunStart(r) ==
    /\ runs[r].pc = "scheduled"
    /\ Commit(start_job(runs[r].job))
    /\ runs' = [runs EXCEPT ![r].pc = "started"]
    /\ UNCHANGED <<requests, connections>>

RunStartFault(r) ==
    /\ runs[r].pc = "scheduled"
    /\ runs' = [runs EXCEPT ![r].pc = "except"]
    /\ UNCHANGED <<jobs, job_items, requests, connections>>

\* await job_manager.get_pending_items(job_id), then the classification into
\* lanes and the creation of the lane tasks (no await in between); with no
\* pending item the run goes straight to complete_job
RunGetPending(r) ==
    /\ runs[r].pc = "started"
    /\ LET pending == get_pending_items(runs[r].job)
       IN  runs' = [runs EXCEPT
                ![r].pc = "gather",
                ![r].origin = NULL, ![r].submitted = <<>>, ![r].reset = {},
                ![r].tasks = [i \in ItemIds |->
                    IF i \notin pending THEN NoTask
                    ELSE IF Lane(job_items[i]) = "skipped" THEN Task("skipped")
                    ELSE Task("wait")]]
    /\ UNCHANGED <<jobs, job_items, requests, connections>>

RunGetPendingFault(r) ==
    /\ runs[r].pc = "started"
    /\ runs' = [runs EXCEPT ![r].pc = "except"]
    /\ UNCHANGED <<jobs, job_items, requests, connections>>

\* the mailto fallback of process_one_click_item and process_browser_item:
\* send_unsubscribe_email has no await and never raises, so the fallback runs
\* in the step in which the primary strategy returns
\* Cascade that keeps the primary's name after a successful fallback
Cascade_keeps_method(item, primary_ok, primary_msg, primary_name, mail_ok, suffix) ==
    IF ~primary_ok /\ item.unsubscribe_mailto # NULL
    THEN IF mail_ok
         THEN [success |-> TRUE, message |-> MsgMailOk, method |-> primary_name,
               primary_result |-> Result(primary_ok), mailto_result |-> "ok"]
         ELSE [success |-> FALSE, message |-> primary_msg \o suffix,
               method |-> primary_name,
               primary_result |-> Result(primary_ok), mailto_result |-> "fail"]
    ELSE [success |-> primary_ok, message |-> primary_msg, method |-> primary_name,
          primary_result |-> Result(primary_ok), mailto_result |-> NULL]

\* Cascade that sends the mail for every item with a mailto target, whatever
\* the primary returned
Cascade_always_mailto(item, primary_ok, primary_msg, primary_name, mail_ok, suffix) ==
    IF item.unsubscribe_mailto # NULL
    THEN IF primary_ok
         THEN [success |-> TRUE, message |-> primary_msg, method |-> primary_name,
               primary_result |-> "ok", mailto_result |-> Result(mail_ok)]
         ELSE IF mail_ok
         THEN [success |-> TRUE, message |-> MsgMailOk, method |-> "mailto",
               primary_result |-> "fail", mailto_result |-> "ok"]
         ELSE [success |-> FALSE, message |-> primary_msg \o suffix,
               method |-> primary_name,
               primary_result |-> "fail", mailto_result |-> "fail"]
    ELSE [success |-> primary_ok, message |-> primary_msg, method |-> primary_name,
          primary_result |-> Result(primary_ok), mailto_result |-> NULL]

Cascade(item, primary_ok, primary_msg, primary_name, mail_ok, suffix) ==
    IF ~primary_ok /\ item.unsubscribe_mailto # NULL
    THEN IF mail_ok
         THEN [success |-> TRUE, message |-> MsgMailOk, method |-> "mailto",
               primary_result |-> Result(primary_ok), mailto_result |-> "ok"]
         ELSE [success |-> FALSE, message |-> primary_msg \o suffix,
               method |-> primary_name,
               primary_result |-> Result(primary_ok), mailto_result |-> "fail"]
    ELSE [success |-> primary_ok, message |-> primary_msg, method |-> primary_name,
          primary_result |-> Result(primary_ok), mailto_result |-> NULL]

ToWrite(res) ==
    [pc |-> "write", success |-> res.success, message |-> res.message,
     method |-> res.method, primary_result |-> res.primary_result,
     mailto_result |-> res.mailto_result]
\* the task ended with an exception, which gather returns as its result
Raised(msg) == [Task("raised") EXCEPT !.message = msg]

\* OneClickBegin that also waits until no browser task holds a permit
OneClickBegin_after_browser(r, i) ==
    /\ runs[r].pc = "gather"
    /\ i \in RunItems(r)
    /\ TaskOf(r, i).pc = "wait"
    /\ Lane(job_items[i]) = "one-click"
    /\ Cardinality(HttpHolders(r)) < MAX_CONCURRENT_HTTP
    /\ BrowserHolders(r) = {}
    /\ runs' = SetTask(r, i, Task("http"))
    /\ UNCHANGED <<jobs, job_items, requests, connections>>

\* process_one_click_item: acquire the semaphore and post the request
OneClickBegin(r, i) ==
    /\ runs[r].pc = "gather"
    /\ i \in RunItems(r)
    /\ TaskOf(r, i).pc = "wait"
    /\ Lane(job_items[i]) = "one-click"
    /\ Cardinality(HttpHolders(r)) < MAX_CONCURRENT_HTTP
    /\ runs' = SetTask(r, i, Task("http"))
    /\ UNCHANGED <<jobs, job_items, requests, connections>>

\* async_one_click_unsubscribe returns (success, message)
OneClickReturn(r, i, primary_ok, mail_ok) ==
    /\ runs[r].pc = "gather"
    /\ i \in RunItems(r)
    /\ TaskOf(r, i).pc = "http"
    /\ runs' = SetTask(r, i, ToWrite(Cascade(job_items[i], primary_ok,
                   IF primary_ok THEN MsgHttpOk ELSE MsgHttpFail,
                   "one-click", mail_ok, MailtoAlsoFailed)))
    /\ UNCHANGED <<jobs, job_items, requests, connections>>

\* async_one_click_unsubscribe raises a fault it does not catch
OneClickRaise(r, i) ==
    /\ runs[r].pc = "gather"
    /\ i \in RunItems(r)
    /\ TaskOf(r, i).pc = "http"
    /\ runs' = SetTask(r, i, Raised(MsgStrategyFault))
    /\ UNCHANGED <<jobs, job_items, requests, connections>>

\* BrowserBegin without browser_semaphore
BrowserBegin_unbounded(r, i) ==
    /\ runs[r].pc = "gather"
    /\ i \in RunItems(r)
    /\ TaskOf(r, i).pc = "wait"
    /\ Lane(job_items[i]) = "browser"
    /\ runs' = SetTask(r, i, Task("browser"))
    /\ UNCHANGED <<jobs, job_items, requests, connections>>

\* bounded_browser / process_browser_item: acquire browser_semaphore and hand
\* the item to a worker thread
BrowserBegin(r, i) ==
    /\ runs[r].pc = "gather"
    /\ i \in RunItems(r)
    /\ TaskOf(r, i).pc = "wait"
    /\ Lane(job_items[i]) = "browser"
    /\ Cardinality(BrowserHolders(r)) < MAX_BROWSER_WORKERS
    /\ runs' = SetTask(r, i, Task("browser"))
    /\ UNCHANGED <<jobs, job_items, requests, connections>>

\* browser_unsubscribe_worker returns its result
BrowserReturn(r, i, primary_ok, mail_ok) ==
    /\ runs[r].pc = "gather"
    /\ i \in RunItems(r)
    /\ TaskOf(r, i).pc = "browser"
    /\ runs' = SetTask(r, i, ToWrite(Cascade(job_items[i], primary_ok,
                   IF primary_ok THEN MsgBrowserOk ELSE MsgBrowserFail,
                   "browser", mail_ok, "")))
    /\ UNCHANGED <<jobs, job_items, requests, connections>>

\* browser_unsubscribe_worker raises outside its try (imports, Options())
BrowserRaise(r, i) ==
    /\ runs[r].pc = "gather"
    /\ i \in RunItems(r)
    /\ TaskOf(r, i).pc = "browser"
    /\ runs' = SetTask(r, i, Raised(MsgStrategyFault))
    /\ UNCHANGED <<jobs, job_items, requests, connections>>

\* process_mailto_item: acquire the semaphore and send the mail
MailtoItem(r, i, mail_ok) ==
    /\ runs[r].pc = "gather"
    /\ i \in RunItems(r)
    /\ TaskOf(r, i).pc = "wait"
    /\ Lane(job_items[i]) = "mailto"
    /\ Cardinality(HttpHolders(r)) < MAX_CONCURRENT_HTTP
    /\ runs' = SetTask(r, i, ToWrite([success |-> mail_ok,
                   message |-> IF mail_ok THEN MsgMailOk ELSE MsgMailFail,
                   method |-> "mailto", primary_result |-> Result(mail_ok),
                   mailto_result |-> NULL]))
    /\ UNCHANGED <<jobs, job_items, requests, connections>>

\* await job_manager.update_item(...) of the three lane functions
UpdateItem(r, i) ==
    /\ runs[r].pc = "gather"
    /\ i \in RunItems(r)
    /\ TaskOf(r, i).pc = "write"
    /\ LET t == TaskOf(r, i)
       IN  /\ Commit(update_item(i, IF t.success THEN "success" ELSE "failed",
                                 t.method, IF t.success THEN NULL ELSE t.message))
           /\ runs' = SetTask(r, i, [t EXCEPT !.pc = "done"])
    /\ UNCHANGED <<requests, connections>>

UpdateItemFault(r, i) ==
    /\ runs[r].pc = "gather"
    /\ i \in RunItems(r)
    /\ TaskOf(r, i).pc = "write"
    /\ runs' = SetTask(r, i, Raised(MsgStoreFault))
    /\ UNCHANGED <<jobs, job_items, requests, connections>>

\* RunComplete that does not wait for the lane tasks
RunComplete_no_gather(r) ==
    /\ runs[r].pc = "gather"
    /\ Commit(complete_job(runs[r].job, "completed"))
    /\ runs' = [runs EXCEPT ![r] = FreeRun]
    /\ UNCHANGED <<requests, connections>>

\* RunComplete that finalizes the job as failed
RunComplete_as_failed(r) ==
    /\ runs[r].pc = "gather"
    /\ Finished(r)
    /\ Commit(complete_job(runs[r].job, "failed"))
    /\ runs' = [runs EXCEPT ![r] = FreeRun]
    /\ UNCHANGED <<requests, connections>>

\* asyncio.gather(*all_tasks, return_exceptions=True) has returned:
\* await job_manager.complete_job(job_id, 'completed')
RunComplete(r) ==
    /\ runs[r].pc = "gather"
    /\ Finished(r)
    /\ Commit(complete_job(runs[r].job, "completed"))
    /\ runs' = [runs EXCEPT ![r] = FreeRun]
    /\ UNCHANGED <<requests, connections>>

RunCompleteFault(r) ==
    /\ runs[r].pc = "gather"
    /\ Finished(r)
    /\ runs' = [runs EXCEPT ![r].pc = "except"]
    /\ UNCHANGED <<jobs, job_items, requests, connections>>

\* except Exception: await job_manager.complete_job(job_id, 'failed')
RunExcept(r) ==
    /\ runs[r].pc = "except"
    /\ Commit(complete_job(runs[r].job, "failed"))
    /\ runs' = [runs EXCEPT ![r] = FreeRun]
    /\ UNCHANGED <<requests, connections>>

RunExceptFault(r) ==
    /\ runs[r].pc = "except"
    /\ runs' = [runs EXCEPT ![r] = FreeRun]
    /\ UNCHANGED <<jobs, job_items, requests, connections>>

\* The server process dies while a background task is scheduled or running:
\* the tasks, the requests being served and the open connections are gone
\* (an uncommitted transaction with them); the tables are what was committed.
Crash ==
    /\ \E r \in RunIds : runs[r].pc # "free"
    /\ runs' = [r \in RunIds |-> FreeRun]
    /\ requests' = [q \in RequestIds |-> IdleRequest]
    /\ connections' = [create |-> ClosedCreate, get_job |-> IdleGetJob,
                       one_click |-> IdleOneClick]
    /\ UNCHANGED <<jobs, job_items>>

\* ========================= retry_job (src/app.py) =========================
Respond(q, job_id, code, n) ==
    [requests EXCEPT ![q] = [pc |-> "done", job |-> job_id, response |-> code,
                             retried |-> n]]

\* RetryGetJob without the check of the running status
RetryGetJob_no_check(q, job_id) ==
    /\ requests[q].pc \in {"idle", "done"}
    /\ requests' =
         IF job_id \notin JobIds THEN Respond(q, job_id, "404", 0)
         ELSE [requests EXCEPT ![q] = [pc |-> "checked", job |-> job_id,
                                       response |-> NULL, retried |-> 0]]
    /\ UNCHANGED <<jobs, job_items, runs, connections>>

\* SELECT * FROM jobs WHERE status = 'running' LIMIT 1: the rows of which the
\* query returns one (it has no ORDER BY)
get_active_job == {j \in JobIds : jobs[j].status = "running"}

\* job = await job_manager.get_job(job_id) and the two early returns
RetryGetJob(q, job_id) ==
    /\ requests[q].pc \in {"idle", "done"}
    /\ requests' =
         IF job_id \notin JobIds THEN Respond(q, job_id, "404", 0)
         ELSE IF jobs[job_id].status = "running" THEN Respond(q, job_id, "400", 0)
         ELSE [requests EXCEPT ![q] = [pc |-> "checked", job |-> job_id,
                                       response |-> NULL, retried |-> 0]]
    /\ UNCHANGED <<jobs, job_items, runs, connections>>

\* count = await job_manager.reset_failed_items(job_id), then add_task
RetryReset(q, n) ==
    /\ requests[q].pc = "checked"
    /\ LET job_id == requests[q].job
           count == reset_count(job_id)
       IN  /\ \A i \in get_failed_items(job_id) :
                  job_items[i].retry_count < MaxRetryCount
           /\ count > 0 => FreeRuns(n) # {}
           /\ Commit(reset_failed_items(job_id))
           /\ runs' = IF count = 0 THEN runs
                      ELSE add_task(job_id, n, "retry", <<>>, get_failed_items(job_id))
           /\ requests' = Respond(q, job_id, "200", count)
    /\ UNCHANGED connections

RetryResetFault(q) ==
    /\ requests[q].pc = "checked"
    /\ requests' = Respond(q, requests[q].job, "500", 0)
    /\ UNCHANGED <<jobs, job_items, runs, connections>>

Next ==
    \/ \E items \in InputLists : SubmitJob(items, MaxRuns, MaxJobs, MaxItems)
    \/ \E r \in RunIds : RunStart(r)
    \/ \E r \in RunIds : RunStartFault(r)
    \/ \E r \in RunIds : RunGetPending(r)
    \/ \E r \in RunIds : RunGetPendingFault(r)
    \/ \E r \in RunIds, i \in ItemIds : OneClickBegin(r, i)
    \/ \E r \in RunIds, i \in ItemIds, p \in BOOLEAN, m \in BOOLEAN :
          OneClickReturn(r, i, p, m)
    \/ \E r \in RunIds, i \in ItemIds : OneClickRaise(r, i)
    \/ \E r \in RunIds, i \in ItemIds : BrowserBegin(r, i)
    \/ \E r \in RunIds, i \in ItemIds, p \in BOOLEAN, m \in BOOLEAN :
          BrowserReturn(r, i, p, m)
    \/ \E r \in RunIds, i \in ItemIds : BrowserRaise(r, i)
    \/ \E r \in RunIds, i \in ItemIds, m \in BOOLEAN : MailtoItem(r, i, m)
    \/ \E r \in RunIds, i \in ItemIds : UpdateItem(r, i)
    \/ \E r \in RunIds, i \in ItemIds : UpdateItemFault(r, i)
    \/ \E r \in RunIds : RunComplete(r)
    \/ \E r \in RunIds : RunCompleteFault(r)
    \/ \E r \in RunIds : RunExcept(r)
    \/ \E r \in RunIds : RunExceptFault(r)
    \/ \E q \in RequestIds, j \in 1..MaxJobs : RetryGetJob(q, j)
    \/ \E q \in RequestIds : RetryReset(q, MaxRuns)
    \/ \E q \in RequestIds : RetryResetFault(q)

\* One background task at a time, jobs of every kind of item.
Spec == Init /\ [][Next]_vars

\* Overlapping background tasks: a retry request whose status check passed
\* before a run started resets and schedules while that run is in progress.
\* The jobs hold mailto-only items, so the one-click and browser steps never
\* apply and are left out.
NextRace ==
    \/ \E items \in RaceInputLists : SubmitJob(items, RaceRuns, MaxJobs, MaxItems)
    \/ \E r \in RunIds : RunStart(r)
    \/ \E r \in RunIds : RunStartFault(r)
    \/ \E r \in RunIds : RunGetPending(r)
    \/ \E r \in RunIds : RunGetPendingFault(r)
    \/ \E r \in RunIds, i \in ItemIds, m \in BOOLEAN : MailtoItem(r, i, m)
    \/ \E r \in RunIds, i \in ItemIds : UpdateItem(r, i)
    \/ \E r \in RunIds, i \in ItemIds : UpdateItemFault(r, i)
    \/ \E r \in RunIds : RunComplete(r)
    \/ \E r \in RunIds : RunCompleteFault(r)
    \/ \E r \in RunIds : RunExcept(r)
    \/ \E r \in RunIds : RunExceptFault(r)
    \/ \E q \in RequestIds, j \in 1..MaxJobs : RetryGetJob(q, j)
    \/ \E q \in RequestIds : RetryReset(q, RaceRuns)
    \/ \E q \in RequestIds : RetryResetFault(q)

SpecRace == Init /\ [][NextRace]_vars

\* One run of one freshly created job with no fault of a strategy or of the
\* store, on the jobs of LaneInputLists: the semaphores of the lanes at their
\* configured limits.
NextLanes ==
    \/ \E items \in LaneInputLists : SubmitJob(items, 1, 1, Len(items))
    \/ \E r \in RunIds : RunStart(r)
    \/ \E r \in RunIds : RunGetPending(r)
    \/ \E r \in RunIds, i \in ItemIds : OneClickBegin(r, i)
    \/ \E r \in RunIds, i \in ItemIds, p \in BOOLEAN, m \in BOOLEAN :
          OneClickReturn(r, i, p, m)
    \/ \E r \in RunIds, i \in ItemIds : BrowserBegin(r, i)
    \/ \E r \in RunIds, i \in ItemIds, p \in BOOLEAN, m \in BOOLEAN :
          BrowserReturn(r, i, p, m)
    \/ \E r \in RunIds, i \in ItemIds, m \in BOOLEAN : MailtoItem(r, i, m)
    \/ \E r \in RunIds, i \in ItemIds : UpdateItem(r, i)
    \/ \E r \in RunIds : RunComplete(r)

SpecLanes == Init /\ [][NextLanes]_vars

\* create_job taken statement by statement, with a get_job and the runs of
\* the jobs created reading and writing meanwhile; jobs of mailto-only items.
NextCreate ==
    \/ \E items \in RaceInputLists : CreateJobInsertJob(items, MaxJobs, MaxItems)
    \/ CreateJobInsertItem
    \/ CreateJobCommit(MaxRuns)
    \/ CreateJobFault
    \/ \E j \in 1..MaxJobs : GetJobSelectJob(j)
    \/ GetJobSelectItems
    \/ \E r \in RunIds : RunStart(r)
    \/ \E r \in RunIds : RunGetPending(r)
    \/ \E r \in RunIds, i \in ItemIds, m \in BOOLEAN : MailtoItem(r, i, m)
    \/ \E r \in RunIds, i \in ItemIds : UpdateItem(r, i)
    \/ \E r \in RunIds : RunComplete(r)

SpecCreate == Init /\ [][NextCreate]_vars

\* Several jobs: POST /unsubscribe again while the run of an earlier job is
\* scheduled or in progress, and retries of either job; jobs of mailto-only
\* items, no fault of the store.
NextJobs ==
    \/ \E items \in RaceInputLists : SubmitJob(items, RaceRuns, ManyJobs, MaxItems)
    \/ \E r \in RunIds : RunStart(r)
    \/ \E r \in RunIds : RunGetPending(r)
    \/ \E r \in RunIds, i \in ItemIds, m \in BOOLEAN : MailtoItem(r, i, m)
    \/ \E r \in RunIds, i \in ItemIds : UpdateItem(r, i)
    \/ \E r \in RunIds : RunComplete(r)
    \/ \E q \in RequestIds, j \in 1..ManyJobs : RetryGetJob(q, j)
    \/ \E q \in RequestIds : RetryReset(q, RaceRuns)

SpecJobs == Init /\ [][NextJobs]_vars

\* A server that can die during a run and serves requests again after its
\* restart: one background task at a time, jobs of mailto-only items, no
\* fault of the store.
NextCrash ==
    \/ \E items \in RaceInputLists : SubmitJob(items, MaxRuns, MaxJobs, MaxItems)
    \/ \E r \in RunIds : RunStart(r)
    \/ \E r \in RunIds : RunGetPending(r)
    \/ \E r \in RunIds, i \in ItemIds, m \in BOOLEAN : MailtoItem(r, i, m)
    \/ \E r \in RunIds, i \in ItemIds : UpdateItem(r, i)
    \/ \E r \in RunIds : RunComplete(r)
    \/ Crash
    \/ \E q \in RequestIds, j \in 1..MaxJobs : RetryGetJob(q, j)
    \/ \E q \in RequestIds : RetryReset(q, MaxRuns)

SpecCrash == Init /\ [][NextCrash]_vars

\* Invocations of async_one_click_unsubscribe, one after another, on every
\* result client.post can give; every await of an invocation returns.
NextOneClick ==
    \/ OneClickCall
    \/ \E o \in Outcomes : OneClickAttempt(o)
    \/ OneClickBackoff

SpecOneClick ==
    /\ Init
    /\ [][NextOneClick]_vars
    /\ WF_vars((\E o \in Outcomes : OneClickAttempt(o)) \/ OneClickBackoff)

\* One run of one job with the faults of the strategies and of the store,
\* under fair scheduling: the event loop resumes every coroutine that can
\* proceed, every awaited call returns or raises, and asyncio.Semaphore wakes
\* its waiters in turn.  The jobs are those of Spec and the job of
\* BrowserLaneList, whose tasks contend for browser_semaphore.
LiveInputLists == InputLists \cup {BrowserLaneList}
LiveItemIds == 1..(MAX_BROWSER_WORKERS + MaxExtra)

\* the steps of run r outside its lane tasks
RunStep(r) ==
    \/ RunStart(r)
    \/ RunStartFault(r)
    \/ RunGetPending(r)
    \/ RunGetPendingFault(r)
    \/ RunComplete(r)
    \/ RunCompleteFault(r)
    \/ RunExcept(r)
    \/ RunExceptFault(r)

\* the lane task of item i takes its semaphore
TaskBegin(r, i) ==
    \/ OneClickBegin(r, i)
    \/ BrowserBegin(r, i)
    \/ \E m \in BOOLEAN : MailtoItem(r, i, m)

\* the call the lane task of item i awaits returns or raises
TaskStep(r, i) ==
    \/ \E p \in BOOLEAN, m \in BOOLEAN : OneClickReturn(r, i, p, m)
    \/ OneClickRaise(r, i)
    \/ \E p \in BOOLEAN, m \in BOOLEAN : BrowserReturn(r, i, p, m)
    \/ BrowserRaise(r, i)
    \/ UpdateItem(r, i)
    \/ UpdateItemFault(r, i)

NextLive ==
    \/ \E items \in LiveInputLists :
          SubmitJob(items, MaxRuns, MaxJobs, MAX_BROWSER_WORKERS + MaxExtra)
    \/ \E r \in RunIds : RunStep(r)
    \/ \E r \in RunIds, i \in LiveItemIds : TaskBegin(r, i)
    \/ \E r \in RunIds, i \in LiveItemIds : TaskStep(r, i)

Fairness ==
    /\ \A r \in RunIds : WF_vars(RunStep(r))
    /\ \A r \in RunIds : \A i \in LiveItemIds : SF_vars(TaskBegin(r, i))
    /\ \A r \in RunIds : \A i \in LiveItemIds : WF_vars(TaskStep(r, i))

SpecLive == Init /\ [][NextLive]_vars /\ Fairness

\* ================================ claims ================================
\* steps of a run, recognised in a pair of states
\* run r ends by complete_job(job_id, 'completed')
RunCompletes(r) == runs[r].pc = "gather" /\ runs'[r].pc = "free"
\* the update_item of the task of run r for item i commits
ItemWritten(r, i) ==
    /\ i \in RunItems(r)
    /\ TaskOf(r, i).pc = "write"
    /\ runs'[r].pc = "gather"
    /\ runs'[r].tasks[i].pc = "done"
StoreFaulted(r) ==
    \E i \in RunItems(r) : TaskOf(r, i).pc = "raised" /\ TaskOf(r, i).message = MsgStoreFault
StrategyFaulted(r, i) ==
    TaskOf(r, i).pc = "raised" /\ TaskOf(r, i).message = MsgStrategyFault

\* C1: for every job, completed_items = successful_items + failed_items in
\* every reachable persisted state, overlapping runs and retries included.
C1_CounterSum ==
    \A j \in JobIds :
        jobs[j].completed_items = jobs[j].successful_items + jobs[j].failed_items

C3_CompletedRunTerminal ==
    [][\A r \in RunIds :
        (RunCompletes(r) /\ ~StoreFaulted(r)) =>
            /\ jobs'[runs[r].job].status = "completed"
            /\ \A i \in RunItems(r) :
                /\ i \in Classified(r) => job_items'[i].status \in {"success", "failed"}
                /\ TaskOf(r, i).pc = "skipped" => job_items'[i].status = "pending"]_vars

\* C4: in the one-click and browser lanes the record written for an item is:
\* primary succeeded - success with the primary's name; primary failed and
\* mailto succeeded - success with "mailto"; primary failed and mailto failed
\* or not attempted - failed with the primary's name; mailto is attempted
\* exactly when the primary failed and the item has a mailto target.
C4_FallbackCascade ==
    [][\A r \in RunIds : \A i \in RunItems(r) :
        (ItemWritten(r, i) /\ Lane(job_items[i]) \in {"one-click", "browser"}) =>
            LET t == TaskOf(r, i)
                primary == Lane(job_items[i])
                rec == <<job_items'[i].status, job_items'[i].method_attempted>>
            IN  /\ t.primary_result \in {"ok", "fail"}
                /\ t.primary_result = "ok" => rec = <<"success", primary>>
                /\ (t.primary_result = "fail" /\ t.mailto_result = "ok") =>
                       rec = <<"success", "mailto">>
                /\ (t.primary_result = "fail" /\ t.mailto_result # "ok") =>
                       rec = <<"failed", primary>>
                /\ t.mailto_result # NULL <=>
                       (t.primary_result = "fail"
                        /\ job_items[i].unsubscribe_mailto # NULL)]_vars

\* an item with a URL recorded as success by the mailto fallback
C4_Witness ==
    \E i \in ItemIds :
        /\ job_items[i].unsubscribe_url # NULL
        /\ job_items[i].status = "success"
        /\ job_items[i].method_attempted = "mailto"

\* number of update_item calls the task of run r for item i has made
UpdateItemCalls(r, i) ==
    IF TaskOf(r, i).pc = "done" THEN 1
    ELSE IF TaskOf(r, i).pc = "raised" /\ TaskOf(r, i).message = MsgStoreFault THEN 1
    ELSE 0
\* run r leaves asyncio.gather: every lane task has returned or raised
RunLeavesGather(r) == runs[r].pc = "gather" /\ runs'[r].pc # "gather"

\* C5: when the lane tasks of a run are over, exactly one update_item call
\* has been made for each item the run classified into a lane.
C5_OneUpdatePerItem ==
    [][\A r \in RunIds :
        RunLeavesGather(r) => \A i \in Classified(r) : UpdateItemCalls(r, i) = 1]_vars

\* C6: an item whose strategy raised is persisted as failed with
\* method_attempted = "error" and the fault's description as its message.
C6_FaultPersisted ==
    [][\A r \in RunIds :
        RunLeavesGather(r) =>
            \A i \in RunItems(r) :
                StrategyFaulted(r, i) =>
                    /\ job_items'[i].status = "failed"
                    /\ job_items'[i].method_attempted = "error"
                    /\ job_items'[i].error_message = MsgStrategyFault]_vars

\* C7: a run whose start_job finds the job already running is rejected: the
\* run ends there, with no dispatch, and the job record is unchanged.
C7_RunningJobRejectsRun ==
    [][\A r \in RunIds :
        (/\ runs[r].pc = "scheduled"
         /\ runs'[r].pc \notin {"scheduled", "except"}
         /\ jobs[runs[r].job].status = "running") =>
            /\ runs'[r] = FreeRun
            /\ jobs' = jobs
            /\ job_items' = job_items]_vars

\* C8: a run in which a store call raised never finalizes the job as
\* completed.
C8_StoreFaultNotCompleted ==
    [][\A r \in RunIds :
        (RunCompletes(r) /\ jobs'[runs[r].job].status = "completed") =>
            ~StoreFaulted(r)]_vars

\* C9: within a run, start_job has committed before any update_item of the
\* run commits, and the terminal status is written only after every lane
\* task of the run has made its update_item call or raised.
C9_WriteOrder ==
    [][\A r \in RunIds :
        /\ \A i \in RunItems(r) :
               ItemWritten(r, i) =>
                   /\ runs[r].pc = "gather"
                   /\ jobs[runs[r].job].started_at # NULL
        /\ (runs[r].pc # "free" /\ runs'[r].pc = "free") => Finished(r)]_vars

\* a run that wrote an item has finalized its job
C9_Witness ==
    \E j \in JobIds :
        /\ jobs[j].status = "completed"
        /\ jobs[j].completed_items > 0
        /\ \A r \in RunIds : runs[r].pc = "free"

\* C10: a retry request that finds the job running is answered with a
\* conflict and changes nothing: no item, no counter, no job status, no run.
C10_RetryConflict ==
    [][\A q \in RequestIds :
        (/\ requests[q].pc \in {"idle", "done"}
         /\ requests'[q] # requests[q]
         /\ requests'[q].job \in JobIds
         /\ jobs[requests'[q].job].status = "running") =>
            /\ requests'[q].pc = "done"
            /\ requests'[q].response = "400"
            /\ requests'[q].retried = 0
            /\ jobs' = jobs
            /\ job_items' = job_items
            /\ runs' = runs]_vars

\* a retry request answered with a conflict while the job runs
C10_Witness ==
    \E q \in RequestIds :
        /\ requests[q].pc = "done"
        /\ requests[q].response = "400"
        /\ requests[q].job \in JobIds
        /\ jobs[requests[q].job].status = "running"
        /\ \E i \in ItemIds : job_items[i].status = "failed"

\* request q gets the answer of a reset_failed_items that committed
RetryAnswered(q) ==
    /\ requests[q].pc = "checked"
    /\ requests'[q].pc = "done"
    /\ requests'[q].response = "200"

\* C11: a retry on a job that is not running and has no failed item answers
\* retried = 0, schedules no run and leaves the job's status and
\* completed_at as they were.
C11_RetryNothingFailed ==
    [][\A q \in RequestIds :
        (/\ RetryAnswered(q)
         /\ jobs[requests[q].job].status # "running"
         /\ get_failed_items(requests[q].job) = {}) =>
            /\ requests'[q].retried = 0
            /\ runs' = runs
            /\ jobs'[requests[q].job].status = jobs[requests[q].job].status
            /\ jobs'[requests[q].job].completed_at = jobs[requests[q].job].completed_at]_vars

\* C12: a retry on a job that is not running moves exactly the job's failed
\* items to pending with retry_count + 1, answers their number, and leaves
\* every other item (success or pending) as it was.
C12_RetryResetsFailed ==
    [][\A q \in RequestIds :
        (RetryAnswered(q) /\ jobs[requests[q].job].status # "running") =>
            LET failed == get_failed_items(requests[q].job)
            IN  /\ requests'[q].retried = Cardinality(failed)
                /\ Len(job_items') = Len(job_items)
                /\ \A i \in ItemIds :
                      job_items'[i] =
                        IF i \in failed
                        THEN [job_items[i] EXCEPT !.status = "pending",
                                                  !.retry_count = @ + 1]
                        ELSE job_items[i]]_vars

\* a retry that reset one item of a job that also holds a success item
C12_Witness ==
    \E q \in RequestIds :
        /\ requests[q].pc = "done"
        /\ requests[q].response = "200"
        /\ requests[q].retried = 1
        /\ \E i, k \in ItemIds :
              /\ job_items[i].status = "pending" /\ job_items[i].retry_count = 1
              /\ job_items[k].status = "success" /\ job_items[k].retry_count = 0
              /\ job_items[k].method_attempted # NULL

\* C13: the run a retry scheduled dispatches exactly the items that retry
\* reset: every one of them, and no item that was pending before the retry.
C13_RetryRunAttemptsResetSet ==
    [][\A r \in RunIds :
        (/\ runs[r].pc = "started"
         /\ runs'[r].pc = "gather"
         /\ runs[r].origin = "retry") =>
            {i \in DOMAIN runs'[r].tasks :
                runs'[r].tasks[i].pc \notin {"none", "skipped"}} = runs[r].reset]_vars

\* C14: an item whose status is success is never changed and no strategy is
\* invoked for it again, whatever runs and retries interleave.
C14_SuccessIsFinal ==
    [][\A i \in ItemIds :
        job_items[i].status = "success" =>
            /\ job_items'[i] = job_items[i]
            /\ \A r \in RunIds :
                  (/\ i \in RunItems(r)
                   /\ TaskOf(r, i).pc = "wait"
                   /\ runs'[r].pc = "gather") =>
                      runs'[r].tasks[i].pc = "wait"]_vars

\* the task of run r for item i sends a mail in this step: the mailto-only
\* strategy, or the fallback of a URL lane when its primary returns
MailSent(r, i) ==
    /\ i \in RunItems(r)
    /\ TaskOf(r, i).pc \in {"wait", "http", "browser"}
    /\ runs'[r].pc = "gather"
    /\ runs'[r].tasks[i].pc = "write"
    /\ \/ Lane(job_items[i]) = "mailto"
       \/ runs'[r].tasks[i].mailto_result # NULL

\* C15: in a run, the one-click and mailto invocations in progress never
\* number more than MAX_CONCURRENT_HTTP, the mails sent as the fallback of a
\* browser-lane item counted.
C15_HttpBound ==
    [][\A r \in RunIds :
        /\ Cardinality(ActiveHttp(r)) <= MAX_CONCURRENT_HTTP
        /\ \A i \in RunItems(r) :
              MailSent(r, i) =>
                  Cardinality(ActiveHttp(r) \ {i}) + 1 <= MAX_CONCURRENT_HTTP]_vars

\* C16: in a run, the browser workers in progress never number more than
\* MAX_BROWSER_WORKERS, however many items are in the browser lane.
C16_BrowserBound ==
    \A r \in RunIds : Cardinality(ActiveBrowser(r)) <= MAX_BROWSER_WORKERS

\* the limit is reached while a further browser item waits for the semaphore
C16_Witness ==
    \E r \in RunIds :
        /\ Cardinality(ActiveBrowser(r)) = MAX_BROWSER_WORKERS
        /\ \E i \in RunItems(r) :
              TaskOf(r, i).pc = "wait" /\ Lane(job_items[i]) = "browser"

\* the entries of a snapshot without their messages
Brief(results) ==
    [k \in 1..Len(results) |->
        [sender |-> results[k].sender, success |-> results[k].success,
         method |-> results[k].method]]
\* the items of set S below item i, plus one: the place of i in item order
Rank(S, i) == Cardinality({x \in S : x < i}) + 1

\* C17: when the run of a freshly created job ends without a fault,
\* successful_items and failed_items count the items whose cascade succeeded
\* and failed, and the snapshot lists the attempted items in item order with
\* the method each task recorded; for A (one-click succeeds), B (URL strategy
\* fails, mailto succeeds), C (mailto-only, fails) the counters are 2 and 1
\* and the results A/true/one-click, B/true/mailto, C/false/mailto.
C17_EndToEnd ==
    [][\A r \in RunIds :
        RunCompletes(r) =>
            LET j == runs[r].job
                done == Classified(r)
                ok == {i \in done : TaskOf(r, i).success}
                res == get_job_status_of(jobs', job_items', j).results
            IN  /\ jobs'[j].successful_items = Cardinality(ok)
                /\ jobs'[j].failed_items = Cardinality(done \ ok)
                /\ Len(res) = Cardinality(done)
                /\ \A i \in done :
                      /\ res[Rank(done, i)].sender = job_items[i].sender
                      /\ res[Rank(done, i)].success = TaskOf(r, i).success
                      /\ res[Rank(done, i)].method = TaskOf(r, i).method
                /\ (/\ Len(job_items) = 3
                    /\ [i \in 1..3 |-> job_items[i].sender] = <<"A", "B", "C">>
                    /\ TaskOf(r, 1).primary_result = "ok"
                    /\ TaskOf(r, 2).primary_result = "fail"
                    /\ TaskOf(r, 2).mailto_result = "ok"
                    /\ TaskOf(r, 3).primary_result = "fail") =>
                       /\ jobs'[j].successful_items = 2
                       /\ jobs'[j].failed_items = 1
                       /\ Brief(res) =
                            <<[sender |-> "A", success |-> TRUE, method |-> "one-click"],
                              [sender |-> "B", success |-> TRUE, method |-> "mailto"],
                              [sender |-> "C", success |-> FALSE, method |-> "mailto"]>>]_vars

\* the job of A, B, C after its run, with B's URL in the browser lane
C17_Witness ==
    /\ Len(jobs) = 1
    /\ jobs[1].status = "completed"
    /\ jobs[1].successful_items = 2
    /\ jobs[1].failed_items = 1
    /\ Len(job_items) = 3
    /\ Lane(job_items[2]) = "browser"
    /\ Brief(get_job_status(1).results) =
         <<[sender |-> "A", success |-> TRUE, method |-> "one-click"],
           [sender |-> "B", success |-> TRUE, method |-> "mailto"],
           [sender |-> "C", success |-> FALSE, method |-> "mailto"]>>

\* C18: the snapshot of a job is derived from the persisted rows alone:
\* running iff the status is running, progress = completed_items, total =
\* total_items, and results holds, in item order, exactly the job's items
\* whose status is success or failed, success being true iff the status is
\* success.
C18_StatusProjection ==
    \A j \in JobIds :
        LET v == get_job_status(j)
            term == {i \in ItemIds : /\ job_items[i].job_id = j
                                     /\ job_items[i].status \in {"success", "failed"}}
        IN  /\ v.running <=> jobs[j].status = "running"
            /\ v.progress = jobs[j].completed_items
            /\ v.total = jobs[j].total_items
            /\ v.job_id = j
            /\ Len(v.results) = Cardinality(term)
            /\ \A i \in term :
                  /\ v.results[Rank(term, i)].sender = job_items[i].sender
                  /\ v.results[Rank(term, i)].success <=> job_items[i].status = "success"

\* a running job with one item written and one still pending
C18_Witness ==
    \E j \in JobIds :
        /\ jobs[j].status = "running"
        /\ get_job_status(j).running
        /\ get_job_status(j).total = 2
        /\ Len(get_job_status(j).results) = 1
        /\ \E i \in ItemIds : job_items[i].job_id = j /\ job_items[i].status = "pending"

\* C19: at the dispatch of a submitted job, every pending item is in the
\* lane its submitted entry calls for: one-click iff it has an http(s) URL
\* flagged one_click, browser iff it has an http(s) URL not flagged, mailto
\* iff it has no http(s) URL but a mailto target, skipped iff it has neither.
C19_LaneClassification ==
    [][\A r \in RunIds :
        (/\ runs[r].pc = "started"
         /\ runs'[r].pc = "gather"
         /\ runs[r].origin = "submit") =>
            LET owned == {i \in ItemIds : job_items[i].job_id = runs[r].job}
            IN  \A i \in owned :
                  LET x == runs[r].submitted[Rank(owned, i)]
                      http == x.url # NULL /\ StartsWithHttp(x.url)
                  IN  job_items[i].status = "pending" =>
                        /\ Lane(job_items[i]) = "one-click" <=> (http /\ x.one_click)
                        /\ Lane(job_items[i]) = "browser" <=> (http /\ ~x.one_click)
                        /\ Lane(job_items[i]) = "mailto" <=> (~http /\ x.mailto # NULL)
                        /\ Lane(job_items[i]) = "skipped" <=> (~http /\ x.mailto = NULL)
                        /\ runs'[r].tasks[i].pc = "skipped" <=> Lane(job_items[i]) = "skipped"]_vars

\* C20: a job is never visible with fewer item rows than its total_items:
\* every job row in the committed tables, which is what list_jobs,
\* get_pending_items and any other SELECT read, has all its item rows there,
\* and a get_job that found the job row returns total_items items.
C20_CreateJobAtomic ==
    /\ \A j \in JobIds :
          Cardinality({i \in ItemIds : job_items[i].job_id = j}) = jobs[j].total_items
    /\ (connections.get_job.pc = "done" /\ connections.get_job.found) =>
          connections.get_job.items = connections.get_job.total_items

\* a get_job that looked for the job while create_job had inserted its rows
\* and not committed: it did not find the job
C20_Witness ==
    /\ connections.create.pc = "open"
    /\ Len(connections.create.job_rows) = 1
    /\ Len(connections.create.item_rows) = 1
    /\ Len(connections.create.todo) = 1
    /\ connections.get_job.pc = "done"
    /\ connections.get_job.job_id = connections.create.job_id
    /\ ~connections.get_job.found

\* C21: the status of a job changes only from pending to running, from
\* running to completed or failed, and from a status other than running
\* back to pending.
C21_StatusTransitions ==
    [][\A j \in JobIds :
        jobs'[j].status # jobs[j].status =>
            \/ jobs[j].status = "pending" /\ jobs'[j].status = "running"
            \/ jobs[j].status = "running" /\ jobs'[j].status \in {"completed", "failed"}
            \/ jobs[j].status # "running" /\ jobs'[j].status = "pending"]_vars

\* C22: started_at is set exactly for the jobs that have been running (a new
\* job has none, it is set only by a step that makes the job running, and a
\* running job has it), and completed_at is set exactly while the status is
\* completed or failed.
C22_Timestamps ==
    [][\A j \in 1..Len(jobs') :
        /\ jobs'[j].completed_at # NULL <=> jobs'[j].status \in {"completed", "failed"}
        /\ jobs'[j].status = "running" => jobs'[j].started_at # NULL
        /\ j \notin JobIds => jobs'[j].started_at = NULL /\ jobs'[j].status # "running"
        /\ (j \in JobIds /\ jobs'[j].started_at # jobs[j].started_at) =>
              jobs'[j].status = "running"]_vars

\* the runs whose task for item i is dispatched and not over
RunsHolding(i) ==
    {r \in RunIds : /\ i \in RunItems(r)
                    /\ TaskOf(r, i).pc \in {"wait", "http", "browser", "write"}}

\* C23: update_item writes an item only while the item is pending, so at
\* most once between two resets, and no item is held by two runs at once.
C23_OneWritePerPass ==
    [][\A i \in ItemIds :
        /\ \A r \in RunIds : ItemWritten(r, i) => job_items[i].status = "pending"
        /\ Cardinality(RunsHolding(i)) <= 1]_vars

\* the message the primary strategy of a URL lane returns on failure
PrimaryFailMessage(lane) == IF lane = "one-click" THEN MsgHttpFail ELSE MsgBrowserFail

\* C24: an item of the one-click or the browser lane whose primary failed
\* is recorded with the primary's message followed by " (mailto also
\* failed)" when a mailto attempt was made and failed, and with the primary's
\* message alone when no mailto attempt was made.
C24_MailtoAlsoFailed ==
    [][\A r \in RunIds : \A i \in RunItems(r) :
        (/\ ItemWritten(r, i)
         /\ Lane(job_items[i]) \in {"one-click", "browser"}
         /\ TaskOf(r, i).primary_result = "fail") =>
            /\ TaskOf(r, i).mailto_result = "fail" =>
                  job_items'[i].error_message =
                      PrimaryFailMessage(Lane(job_items[i])) \o " (mailto also failed)"
            /\ TaskOf(r, i).mailto_result = NULL =>
                  job_items'[i].error_message = PrimaryFailMessage(Lane(job_items[i]))]_vars

\* C25: for an item written as success, the message recorded and the
\* message of its entry in the snapshot are the message the succeeding
\* strategy returned.
C25_SuccessMessage ==
    [][\A r \in RunIds : \A i \in RunItems(r) :
        (ItemWritten(r, i) /\ TaskOf(r, i).success) =>
            /\ job_items'[i].error_message = TaskOf(r, i).message
            /\ StatusResult(job_items'[i]).message = TaskOf(r, i).message]_vars

\* C26: a reset_failed_items that commits answers the number of items it
\* moved from failed to pending, takes that number off completed_items and
\* off failed_items, and leaves the job pending with completed_at cleared.
C26_SymmetricReset ==
    [][\A q \in RequestIds :
        RetryAnswered(q) =>
            LET j == requests[q].job
                count == Cardinality({i \in ItemIds :
                            /\ job_items[i].job_id = j
                            /\ job_items[i].status = "failed"
                            /\ job_items'[i].status = "pending"})
            IN  /\ requests'[q].retried = count
                /\ jobs'[j].completed_items = jobs[j].completed_items - count
                /\ jobs'[j].failed_items = jobs[j].failed_items - count
                /\ jobs'[j].status = "pending"
                /\ jobs'[j].completed_at = NULL]_vars

\* run r found no pending item: it has no lane task at all
NothingPending(r) ==
    runs[r].pc = "gather" /\ \A i \in RunItems(r) : TaskOf(r, i).pc = "none"

\* C27: a run first marks its job running; when it then finds no pending
\* item it creates no lane task, and its next step finalizes the job as
\* completed and ends the run (or goes to the except branch when complete_job
\* raises), with no item written and the counters unchanged.
C27_EmptyRun ==
    [][\A r \in RunIds :
        /\ (runs[r].pc = "scheduled" /\ runs'[r].pc = "started") =>
               /\ jobs'[runs[r].job].status = "running"
               /\ jobs'[runs[r].job].started_at # NULL
        /\ (/\ runs[r].pc = "started"
            /\ runs'[r].pc = "gather"
            /\ get_pending_items(runs[r].job) = {}) =>
               \A i \in DOMAIN runs'[r].tasks : runs'[r].tasks[i].pc = "none"
        /\ (NothingPending(r) /\ runs'[r] # runs[r]) =>
               LET j == runs[r].job
               IN  /\ runs'[r].pc \in {"free", "except"}
                   /\ runs'[r].pc = "free" => jobs'[j].status = "completed"
                   /\ job_items' = job_items
                   /\ jobs'[j].completed_items = jobs[j].completed_items
                   /\ jobs'[j].successful_items = jobs[j].successful_items
                   /\ jobs'[j].failed_items = jobs[j].failed_items]_vars

\* a run has started a job all of whose items another run has written and
\* has found nothing pending
C27_Witness ==
    \E r \in RunIds :
        /\ NothingPending(r)
        /\ jobs[runs[r].job].total_items > 0
        /\ jobs[runs[r].job].started_at # NULL

\* C28: every update_item that commits adds exactly one to completed_items
\* and to the counter of its status and changes no other item, and a get_job
\* never returns a job row and item rows that disagree on the number of
\* items written.
C28_NoLostUpdate ==
    [][/\ \A r \in RunIds : \A i \in RunItems(r) :
            ItemWritten(r, i) =>
                LET j == job_items[i].job_id
                    ok == IF TaskOf(r, i).success THEN 1 ELSE 0
                IN  /\ jobs'[j].completed_items = jobs[j].completed_items + 1
                    /\ jobs'[j].successful_items = jobs[j].successful_items + ok
                    /\ jobs'[j].failed_items = jobs[j].failed_items + (1 - ok)
                    /\ \A k \in ItemIds \ {i} : job_items'[k] = job_items[k]
       /\ (connections'.get_job.pc = "done" /\ connections'.get_job.found) =>
            connections'.get_job.completed_items = connections'.get_job.terminal]_vars

\* C29: at most one job is running, so that get_active_job has one job to
\* return at most.
C29_OneRunningJob == Cardinality(get_active_job) <= 1

\* C30: a lane task waits on the bound of its own lane only.  A waiting task
\* can start whenever its own semaphore has a free permit, however many
\* permits of the other semaphore are held, and a task that has started can
\* return and write its item.
C30_LanesIndependent ==
    \A r \in RunIds : runs[r].pc = "gather" =>
        \A i \in RunItems(r) :
            LET t == TaskOf(r, i)
                lane == Lane(job_items[i])
                http_free == Cardinality(HttpHolders(r)) < MAX_CONCURRENT_HTTP
                browser_free == Cardinality(BrowserHolders(r)) < MAX_BROWSER_WORKERS
            IN  /\ (t.pc = "wait" /\ lane = "browser" /\ browser_free) =>
                       ENABLED BrowserBegin(r, i)
                /\ (t.pc = "wait" /\ lane = "one-click" /\ http_free) =>
                       ENABLED OneClickBegin(r, i)
                /\ (t.pc = "wait" /\ lane = "mailto" /\ http_free) =>
                       ENABLED (\E m \in BOOLEAN : MailtoItem(r, i, m))
                /\ t.pc = "http" =>
                       ENABLED (\E p \in BOOLEAN, m \in BOOLEAN : OneClickReturn(r, i, p, m))
                /\ t.pc = "browser" =>
                       ENABLED (\E p \in BOOLEAN, m \in BOOLEAN : BrowserReturn(r, i, p, m))
                /\ t.pc = "write" => ENABLED UpdateItem(r, i)

\* MAX_BROWSER_WORKERS browser tasks hold every permit of browser_semaphore
\* and have not returned, while the one-click item and the mailto-only item
\* of the job have started and are written
C30_Witness ==
    \E r \in RunIds :
        /\ runs[r].pc = "gather"
        /\ Cardinality(ActiveBrowser(r)) = MAX_BROWSER_WORKERS
        /\ \E i \in RunItems(r) :
              Lane(job_items[i]) = "one-click" /\ TaskOf(r, i).pc = "done"
        /\ \E i \in RunItems(r) :
              Lane(job_items[i]) = "mailto" /\ TaskOf(r, i).pc = "done"

\* the lane task of item i in run r is dispatched and has not finished
TaskPending(r, i) ==
    /\ runs[r].pc = "gather"
    /\ i \in RunItems(r)
    /\ TaskOf(r, i).pc \in {"wait", "http", "browser", "write"}

\* C31: under fair scheduling, with every call returning or raising, every
\* dispatched lane task finishes and every job that is running becomes
\* completed or failed.
C31_RunTerminates ==
    /\ \A r \in RunIds : \A i \in LiveItemIds :
          TaskPending(r, i) ~> ~TaskPending(r, i)
    /\ \A j \in 1..MaxJobs :
          (j \in JobIds /\ jobs[j].status = "running")
             ~> (j \in JobIds /\ jobs[j].status \in {"completed", "failed"})

\* C32: an invocation of the one-click strategy returns success exactly when
\* the last response has status 200, 202, 204 or a 3xx status, and failure
\* after every other status, a timeout or a network fault.
C32_OneClickSuccessCodes ==
    LET c == connections.one_click
    IN  c.pc = "returned" =>
            (c.success <=>
                /\ c.outcome.kind = "response"
                /\ c.outcome.status \in {200, 202, 204} \cup (300..399))

Interrupted(j) ==
    /\ jobs[j].status = "running"
    /\ jobs[j].completed_items > 0
    /\ get_pending_items(j) # {}
    /\ \A r \in RunIds : runs[r].pc = "free"

C35_LatestAttemptOnly ==
    \A i \in ItemIds :
        job_items[i].status = "pending" =>
            /\ job_items[i].method_attempted = NULL
            /\ job_items[i].error_message = NULL

\* C36: in the one-click and browser lanes, per item and run, the primary
\* strategy returns once and the mailto strategy is invoked at most once,
\* only with a failed primary and a mailto target on the item, and before the
\* write of the item: a task that waits or is in its primary has no result,
\* results once set do not change, and the write changes none (a task that
\* ended with an exception keeps no result).
C36_MailtoSecondary ==
    [][\A r \in RunIds :
        (runs[r].pc = "gather" /\ runs'[r].pc = "gather") =>
            \A i \in RunItems(r) :
                Lane(job_items[i]) \in {"one-click", "browser"} =>
                    LET t == runs[r].tasks[i]
                        u == runs'[r].tasks[i]
                    IN  /\ u.pc \in {"wait", "http", "browser"} =>
                               u.primary_result = NULL /\ u.mailto_result = NULL
                        /\ (t.primary_result # NULL /\ u.pc # "raised") =>
                               u.primary_result = t.primary_result
                        /\ (t.pc \in {"write", "done"} /\ u.pc # "raised") =>
                               u.mailto_result = t.mailto_result
                        /\ u.mailto_result # NULL =>
                               /\ u.primary_result = "fail"
                               /\ job_items[i].unsubscribe_mailto # NULL
                        /\ u.primary_result = "ok" => u.mailto_result = NULL
                        /\ job_items[i].unsubscribe_mailto = NULL =>
                               u.mailto_result = NULL
                        /\ ItemWritten(r, i) =>
                               /\ t.pc = "write"
                               /\ t.primary_result \in {"ok", "fail"}
                               /\ u.mailto_result = t.mailto_result]_vars

\* a browser-lane item written as success after its primary failed and the
\* mail was sent, next to a task of the same run whose primary succeeded and
\* sent no mail although its item has a mailto target
C36_Witness ==
    \E r \in RunIds :
        /\ runs[r].pc = "gather"
        /\ \E i \in RunItems(r) :
              /\ Lane(job_items[i]) = "browser"
              /\ TaskOf(r, i).pc = "done"
              /\ TaskOf(r, i).primary_result = "fail"
              /\ TaskOf(r, i).mailto_result = "ok"
              /\ job_items[i].status = "success"
        /\ \E i \in RunItems(r) :
              /\ Lane(job_items[i]) = "one-click"
              /\ TaskOf(r, i).pc \in {"write", "done"}
              /\ TaskOf(r, i).primary_result = "ok"
              /\ TaskOf(r, i).mailto_result = NULL

\* C37: for every job, completed_items is the number of its items that are
\* success or failed, successful_items the number that are success,
\* failed_items the number that are failed, and
\* 0 <= completed_items <= total_items.
C37_CountersMatchItems ==
    \A j \in JobIds :
        LET with(S) == Cardinality({i \in ItemIds :
                           job_items[i].job_id = j /\ job_items[i].status \in S})
        IN  /\ jobs[j].completed_items = with({"success", "failed"})
            /\ jobs[j].successful_items = with({"success"})
            /\ jobs[j].failed_items = with({"failed"})
            /\ 0 <= jobs[j].completed_items
            /\ jobs[j].completed_items <= jobs[j].total_items

\* C38: a step of a run or of a retry for job J changes the record and the
\* items of no other job; no step changes the total_items of a job, the
\* items a job has, or the owner, sender, URL or mailto target of an item;
\* and update_item with an id that has no row changes nothing.
C38_JobIsolation ==
    [][LET others_unchanged(J) ==
               /\ \A k \in JobIds \ {J} : jobs'[k] = jobs[k]
               /\ \A i \in ItemIds :
                      job_items[i].job_id # J => job_items'[i] = job_items[i]
       IN  /\ Len(jobs') >= Len(jobs)
           /\ Len(job_items') >= Len(job_items)
           /\ \A j \in JobIds : jobs'[j].total_items = jobs[j].total_items
           /\ \A i \in ItemIds :
                  /\ job_items'[i].job_id = job_items[i].job_id
                  /\ job_items'[i].sender = job_items[i].sender
                  /\ job_items'[i].unsubscribe_url = job_items[i].unsubscribe_url
                  /\ job_items'[i].unsubscribe_mailto = job_items[i].unsubscribe_mailto
           /\ \A i \in (1..Len(job_items')) \ ItemIds :
                  job_items'[i].job_id \notin JobIds
           /\ \A r \in RunIds :
                  (runs[r].pc # "free" /\ runs'[r] # runs[r]) =>
                      others_unchanged(runs[r].job)
           /\ \A q \in RequestIds :
                  (requests[q].pc = "checked" /\ requests'[q] # requests[q]) =>
                      others_unchanged(requests[q].job)
           /\ \A st \in {"success", "failed"} :
                  update_item(Len(job_items) + 1, st, "mailto", NULL)
                      = Store(jobs, job_items)]_vars

\* two jobs: the first has run, its failed item was reset by a retry and its
\* second run has started, while the second job is still as it was created
C38_Witness ==
    /\ Len(jobs) = 2
    /\ jobs[1].status = "running"
    /\ \E i \in ItemIds : job_items[i].job_id = 1 /\ job_items[i].retry_count = 1
    /\ jobs[2].status = "pending"
    /\ jobs[2].completed_items = 0
    /\ \E i \in ItemIds : job_items[i].job_id = 2 /\ job_items[i].status = "pending"

\* C39: the retry_count of an item is 0 when the item is created, changes
\* only in a reset_failed_items of its job that finds the item failed, by
\* exactly one each time, and every such reset changes it; no other step
\* (update_item, start_job, complete_job) changes it.
C39_RetryCount ==
    [][/\ \A i \in (1..Len(job_items')) \ ItemIds : job_items'[i].retry_count = 0
       /\ \A i \in ItemIds :
            LET reset == \E q \in RequestIds :
                             /\ RetryAnswered(q)
                             /\ requests[q].job = job_items[i].job_id
                             /\ job_items[i].status = "failed"
            IN  /\ job_items'[i].retry_count >= job_items[i].retry_count
                /\ reset => job_items'[i].retry_count = job_items[i].retry_count + 1
                /\ ~reset => job_items'[i].retry_count = job_items[i].retry_count]_vars

\* an item that failed, was reset by a retry and was written again by the
\* run of the retry
C39_Witness ==
    \E i \in ItemIds :
        /\ job_items[i].retry_count = 1
        /\ job_items[i].status \in {"success", "failed"}
        /\ jobs[job_items[i].job_id].status = "completed"
====
